---- MODULE Spec2Model ----
(***************************************************************************)
(* Referral4Referral bot: the queue manager (src/queue_manager.py) over    *)
(* the SQLite store (src/database.py).                                     *)
(*                                                                         *)
(* State: the users table, the referral_history table, the queue_state    *)
(* table, the creation order of the users rows (ORDER BY created_at) and   *)
(* the in-memory list QueueManager.queue.  `last` records the last call of *)
(* the QueueManager API and what it returned.  `tasks` holds the updates   *)
(* that src/main.py has scheduled on its event loop and not yet finished.  *)
(* `removed` is a history variable: the ids that remove_user_from_queue    *)
(* has deleted so far; only SpecStats records them.                        *)
(***************************************************************************)
EXTENDS Integers, Sequences, FiniteSets, Bags, TLC

VARIABLES users, referral_history, queue_state, created_at, queue, last, tasks,
          removed

vars == <<users, referral_history, queue_state, created_at, queue, last, tasks,
          removed>>

(* ---------------------------------------------------------------- bounds *)

\* completed_referrals is capped so that the state space is finite.
MaxCompleted == 2

\* Telegram user ids handed to the queue manager; 0 is a legal int user_id.
Ids == {0, 1, 2}

\* Referral links handed to add_user_to_queue.
Links == {"la", "lb", "lc"}

\* Updates that can be in flight on the event loop at once.
MaxTasks == 2

Slots == 1..MaxTasks

(* ------------------------------------------------------- python values *)

\* Python's None, for Optional[int] values (no user id is negative here).
None == -1

\* Python's None, for Optional[str] values.
NoLink == "None"

\* Truth value of an Optional[int] in `if x:` / `if not x:` (None and 0 are falsy).
Truthy(x) == x # None /\ x # 0

WAITING == "waiting"
ASSIGNED == "assigned"
DONE == "done"

(* ------------------------------------------------------------ database *)

\* A row of the users table; exists = FALSE stands for "no row with this user_id".
NoUser == [exists |-> FALSE, referral_link |-> NoLink, status |-> "none",
           assigned_to |-> None, completed_referrals |-> 0]

get_user(u, user_id) == u[user_id]

user_exists(u, user_id) == u[user_id].exists

link_exists(u, referral_link) ==
    \E i \in Ids : u[i].exists /\ u[i].referral_link = referral_link

\* INSERT INTO users: fails (IntegrityError) on a duplicate user_id or link.
add_user_ok(u, user_id, referral_link) ==
    ~user_exists(u, user_id) /\ ~link_exists(u, referral_link)

add_user(u, user_id, referral_link) ==
    IF add_user_ok(u, user_id, referral_link)
    THEN [u EXCEPT ![user_id] =
            [exists |-> TRUE, referral_link |-> referral_link, status |-> WAITING,
             assigned_to |-> None, completed_referrals |-> 0]]
    ELSE u

\* Mutant of update_user_status: a NULL assigned_to leaves the column as it was.
update_user_status_keeps_target(u, user_id, status, assigned_to) ==
    IF u[user_id].exists
    THEN [u EXCEPT ![user_id].status = status,
                   ![user_id].assigned_to = IF assigned_to = None THEN @
                                            ELSE assigned_to]
    ELSE u

\* UPDATE users SET status, assigned_to WHERE user_id (no row: no effect).
update_user_status(u, user_id, status, assigned_to) ==
    IF u[user_id].exists
    THEN [u EXCEPT ![user_id].status = status, ![user_id].assigned_to = assigned_to]
    ELSE u

\* Mutant of increment_completed_referrals: the counter goes up by two.
increment_completed_referrals_twice(u, user_id) ==
    IF u[user_id].exists
    THEN [u EXCEPT ![user_id].completed_referrals = @ + 2]
    ELSE u

\* UPDATE users SET completed_referrals = completed_referrals + 1.
increment_completed_referrals(u, user_id) ==
    IF u[user_id].exists
    THEN [u EXCEPT ![user_id].completed_referrals = @ + 1]
    ELSE u

\* Mutant of remove_user: the row is not deleted.
remove_user_keeps_row(u, user_id) == u

\* DELETE FROM users WHERE user_id; referral_history rows are left alone.
remove_user(u, user_id) == [u EXCEPT ![user_id] = NoUser]

\* INSERT INTO referral_history (referrer_id, referee_id).
add_referral_history(h, referrer_id, referee_id) ==
    h (+) SetToBag({<<referrer_id, referee_id>>})

\* Mutant of has_interacted_before: the pair is looked up the wrong way round.
has_interacted_before_reversed(h, user_id, target_id) ==
    BagIn(<<target_id, user_id>>, h)

\* SELECT 1 FROM referral_history WHERE referrer_id = ? AND referee_id = ?.
has_interacted_before(h, user_id, target_id) == BagIn(<<user_id, target_id>>, h)

\* queue_state holds at most one row; the row is the saved list.
save_queue_state(queue_order) == <<queue_order>>

\* The saved list; <<>> also stands for "no row" (None): both are falsy to the caller.
get_queue_state(qs) == IF Len(qs) = 0 THEN <<>> ELSE qs[1]

\* SELECT * FROM users WHERE status = ? ORDER BY created_at ASC, as user ids.
get_users_by_status(u, c, status) ==
    SelectSeq(c, LAMBDA i : u[i].exists /\ u[i].status = status)

(* ------------------------------------------------------- list helpers *)

\* list.index(x), 1-based here; 0 when x is not in the list (ValueError).
RECURSIVE IndexFrom(_, _, _)
IndexFrom(q, x, i) ==
    IF i > Len(q) THEN 0
    ELSE IF q[i] = x THEN i
    ELSE IndexFrom(q, x, i + 1)

Index(q, x) == IndexFrom(q, x, 1)

InList(q, x) == Index(q, x) # 0

\* list.remove(x): deletes the first occurrence.
ListRemove(q, x) ==
    LET k == Index(q, x)
    IN  IF k = 0 THEN q
        ELSE [i \in 1..(Len(q) - 1) |-> IF i < k THEN q[i] ELSE q[i + 1]]

(* ------------------------------------------------------ queue manager *)

\* Mutant of load_queue_from_db: the list is always rebuilt from the statuses.
load_queue_from_db_by_status(qs, u, c) == get_users_by_status(u, c, WAITING)

\* QueueManager._load_queue_from_db: the saved list filtered by user_exists when
\* it is non-empty, else the WAITING users in creation order.
load_queue_from_db(qs, u, c) ==
    IF Len(get_queue_state(qs)) > 0
    THEN SelectSeq(get_queue_state(qs), LAMBDA uid : user_exists(u, uid))
    ELSE get_users_by_status(u, c, WAITING)

\* QueueManager.get_queue_position: 1-indexed position, or None.
get_queue_position(q, user_id) ==
    IF InList(q, user_id) THEN Index(q, user_id) ELSE None

\* QueueManager.get_next_user_to_assign: first id of the queue whose row exists
\* and is WAITING, or None.
RECURSIVE next_waiting_from(_, _, _)
next_waiting_from(q, u, i) ==
    IF i > Len(q) THEN None
    ELSE IF u[q[i]].exists /\ u[q[i]].status = WAITING THEN q[i]
    ELSE next_waiting_from(q, u, i + 1)

get_next_user_to_assign(q, u) == next_waiting_from(q, u, 1)

\* QueueManager.get_referral_target: the id right after user_id in the queue, or None.
\* (python: queue[position] with position 1-indexed is the next element.)
get_referral_target(q, user_id) ==
    LET position == get_queue_position(q, user_id)
    IN  IF position = None THEN None
        ELSE IF position < Len(q) THEN q[position + 1]
        ELSE None

\* Mutant of scan_candidates: the scan starts one place too far.
RECURSIVE scan_candidates_skip_first(_, _, _, _)
scan_candidates_skip_first(q, h, user_id, next_pos) ==
    IF next_pos + 1 > Len(q) THEN None
    ELSE IF ~BagIn(<<user_id, q[next_pos + 1]>>, h) THEN q[next_pos + 1]
    ELSE scan_candidates_skip_first(q, h, user_id, next_pos + 1)

\* Mutant of scan_candidates: the history is not consulted.
scan_candidates_unfiltered(q, h, user_id, next_pos) ==
    IF next_pos > Len(q) THEN None ELSE q[next_pos]

\* Mutant of scan_candidates: the scan starts at the caller's own place.
RECURSIVE scan_candidates_from_self(_, _, _, _)
scan_candidates_from_self(q, h, user_id, next_pos) ==
    IF next_pos - 1 > Len(q) THEN None
    ELSE IF ~BagIn(<<user_id, q[next_pos - 1]>>, h) THEN q[next_pos - 1]
    ELSE scan_candidates_from_self(q, h, user_id, next_pos + 1)

\* The while loop of assign_referral: the first candidate at next_pos or later that
\* user_id has not referred before, or None when the loop runs off the end.
RECURSIVE scan_candidates(_, _, _, _)
scan_candidates(q, h, user_id, next_pos) ==
    IF next_pos > Len(q) THEN None
    ELSE IF ~has_interacted_before(h, user_id, q[next_pos]) THEN q[next_pos]
    ELSE scan_candidates(q, h, user_id, next_pos + 1)

AssignFailed(u) == [ok |-> FALSE, link |-> NoLink, user |-> None, users |-> u]

\* Mutant of assign_referral: the target is marked ASSIGNED (busy) as well.
assign_referral_marks_target(q, u, h, user_id) ==
    LET user == get_user(u, user_id)
        first_target == get_referral_target(q, user_id)
        target_id == scan_candidates(q, h, user_id, Index(q, user_id) + 1)
    IN  IF ~user.exists THEN AssignFailed(u)
        ELSE IF user.status # WAITING THEN AssignFailed(u)
        ELSE IF ~Truthy(first_target) THEN AssignFailed(u)
        ELSE IF target_id = None THEN AssignFailed(u)
        ELSE IF ~get_user(u, target_id).exists THEN AssignFailed(u)
        ELSE [ok |-> TRUE,
              link |-> get_user(u, target_id).referral_link,
              user |-> target_id,
              users |-> update_user_status(
                            update_user_status(u, user_id, ASSIGNED, target_id),
                            target_id, ASSIGNED, get_user(u, target_id).assigned_to)]

\* Mutant of assign_referral: the status of the caller is not looked at.
assign_referral_any_status(q, u, h, user_id) ==
    LET user == get_user(u, user_id)
        first_target == get_referral_target(q, user_id)
        target_id == scan_candidates(q, h, user_id, Index(q, user_id) + 1)
    IN  IF ~user.exists THEN AssignFailed(u)
        ELSE IF ~Truthy(first_target) THEN AssignFailed(u)
        ELSE IF target_id = None THEN AssignFailed(u)
        ELSE IF ~get_user(u, target_id).exists THEN AssignFailed(u)
        ELSE [ok |-> TRUE,
              link |-> get_user(u, target_id).referral_link,
              user |-> target_id,
              users |-> update_user_status(u, user_id, ASSIGNED, target_id)]

\* Mutant of assign_referral: the scan goes round from the end of the list to
\* its head.
assign_referral_circular(q, u, h, user_id) ==
    LET user == get_user(u, user_id)
        k == Index(q, user_id)
        rot == IF k = 0 THEN q ELSE SubSeq(q, k, Len(q)) \o SubSeq(q, 1, k - 1)
        first_target == get_referral_target(rot, user_id)
        target_id == scan_candidates(rot, h, user_id, Index(rot, user_id) + 1)
    IN  IF ~user.exists THEN AssignFailed(u)
        ELSE IF user.status # WAITING THEN AssignFailed(u)
        ELSE IF ~Truthy(first_target) THEN AssignFailed(u)
        ELSE IF target_id = None THEN AssignFailed(u)
        ELSE IF ~get_user(u, target_id).exists THEN AssignFailed(u)
        ELSE [ok |-> TRUE,
              link |-> get_user(u, target_id).referral_link,
              user |-> target_id,
              users |-> update_user_status(u, user_id, ASSIGNED, target_id)]

\* QueueManager.assign_referral: what it returns (ok, link, user = target_id) and
\* the users table it leaves.
assign_referral(q, u, h, user_id) ==
    LET user == get_user(u, user_id)
        first_target == get_referral_target(q, user_id)
        target_id == scan_candidates(q, h, user_id, Index(q, user_id) + 1)
    IN  IF ~user.exists THEN AssignFailed(u)
        ELSE IF user.status # WAITING THEN AssignFailed(u)
        ELSE IF ~Truthy(first_target) THEN AssignFailed(u)
        ELSE IF target_id = None THEN AssignFailed(u)
        ELSE IF ~get_user(u, target_id).exists THEN AssignFailed(u)
        ELSE [ok |-> TRUE,
              link |-> get_user(u, target_id).referral_link,
              user |-> target_id,
              users |-> update_user_status(u, user_id, ASSIGNED, target_id)]

\* Mutant of move_to_back: the id is appended without being removed first.
move_to_back_append_only(q, user_id) ==
    IF InList(q, user_id) THEN Append(q, user_id) ELSE q

\* Mutant of move_to_back: the id is moved to the head of the list.
move_to_back_to_head(q, user_id) ==
    IF InList(q, user_id) THEN <<user_id>> \o ListRemove(q, user_id) ELSE q

\* mark_referral_completed, lines 200-203: move user_id to the back of the list.
move_to_back(q, user_id) ==
    IF InList(q, user_id) THEN Append(ListRemove(q, user_id), user_id) ELSE q

\* mark_referral_completed, lines 193-194: the history row is written only for a
\* truthy target_id.
record_history(h, user_id, target_id) ==
    IF Truthy(target_id) THEN add_referral_history(h, user_id, target_id) ELSE h

\* QueueManager.get_user_info: None (found = FALSE) when the user has no row, else
\* the fields the text is formatted from.
get_user_info(u, q, user_id) ==
    IF ~get_user(u, user_id).exists
    THEN [found |-> FALSE, position |-> None, status |-> "none",
          assigned_to |-> None, completed_referrals |-> 0]
    ELSE [found |-> TRUE, position |-> get_queue_position(q, user_id),
          status |-> get_user(u, user_id).status,
          assigned_to |-> get_user(u, user_id).assigned_to,
          completed_referrals |-> get_user(u, user_id).completed_referrals]

(* ------------------------------------------------------------- messages *)

MsgAlready == "You are already in the queue."
MsgDupLink == "This referral link is already registered."
MsgAddFailed == "Failed to add user. Please try again."
MsgAdded == "Your referral link has been added! You are in the queue."
MsgNotFound == "User not found."
MsgNoPending == "You don't have a pending referral to complete."
MsgCompleted == "Referral completed! You've been added back to the queue."
MsgNotInQueue == "User not in queue."
MsgRemoved == "User has been removed from the queue."
NoMsg == ""

\* The last API call: op, its user_id argument (None for none), and what it
\* returned: ok (the success flag, or "a user was returned"), msg, link (for
\* add_user_to_queue the link given), user (target_id of assign_referral, the
\* user of get_next_assignment).
Call(op, arg, ok, msg, link, user) ==
    [op |-> op, arg |-> arg, ok |-> ok, msg |-> msg, link |-> link, user |-> user]

\* An update in flight: the handler it runs, the user it came from (for reset,
\* the user named in it), the link in its text, and the await it stands at.
Task(handler, user_id, link, pc) ==
    [handler |-> handler, user_id |-> user_id, link |-> link, pc |-> pc]

\* A free slot of the event loop.
Idle == Task("idle", None, NoLink, "idle")

(* ---------------------------------------------------------------- init *)

\* A fresh database (init_db creates empty tables) and QueueManager(db).
Init ==
    /\ users = [i \in Ids |-> NoUser]
    /\ referral_history = EmptyBag
    /\ queue_state = <<>>
    /\ created_at = <<>>
    /\ queue = load_queue_from_db(<<>>, [i \in Ids |-> NoUser], <<>>)
    /\ last = Call("init", None, TRUE, NoMsg, NoLink, None)
    /\ tasks = [t \in Slots |-> Idle]
    /\ removed = {}

(* -------------------------------------------------------------- actions *)

\* Mutant of AddUserToQueue: the link is checked before the id.
AddUserToQueue_link_first(user_id, referral_link) ==
    IF link_exists(users, referral_link)
    THEN /\ last' = Call("join", user_id, FALSE, MsgDupLink, referral_link, None)
         /\ UNCHANGED <<users, referral_history, queue_state, created_at, queue>>
    ELSE IF user_exists(users, user_id)
    THEN /\ last' = Call("join", user_id, FALSE, MsgAlready, referral_link, None)
         /\ UNCHANGED <<users, referral_history, queue_state, created_at, queue>>
    ELSE /\ users' = add_user(users, user_id, referral_link)
         /\ created_at' = Append(created_at, user_id)
         /\ queue' = Append(queue, user_id)
         /\ queue_state' = save_queue_state(Append(queue, user_id))
         /\ last' = Call("join", user_id, TRUE, MsgAdded, referral_link, None)
         /\ UNCHANGED referral_history

\* Mutant of AddUserToQueue: the link is not looked up and the users table has
\* no UNIQUE constraint on it.
AddUserToQueue_any_link(user_id, referral_link) ==
    IF user_exists(users, user_id)
    THEN /\ last' = Call("join", user_id, FALSE, MsgAlready, referral_link, None)
         /\ UNCHANGED <<users, referral_history, queue_state, created_at, queue>>
    ELSE /\ users' = [users EXCEPT ![user_id] =
                        [exists |-> TRUE, referral_link |-> referral_link,
                         status |-> WAITING, assigned_to |-> None,
                         completed_referrals |-> 0]]
         /\ created_at' = Append(created_at, user_id)
         /\ queue' = Append(queue, user_id)
         /\ queue_state' = save_queue_state(Append(queue, user_id))
         /\ last' = Call("join", user_id, TRUE, MsgAdded, referral_link, None)
         /\ UNCHANGED referral_history

\* Mutant of AddUserToQueue: the new id is put at the head of the list.
AddUserToQueue_at_head(user_id, referral_link) ==
    IF user_exists(users, user_id)
    THEN /\ last' = Call("join", user_id, FALSE, MsgAlready, referral_link, None)
         /\ UNCHANGED <<users, referral_history, queue_state, created_at, queue>>
    ELSE IF link_exists(users, referral_link)
    THEN /\ last' = Call("join", user_id, FALSE, MsgDupLink, referral_link, None)
         /\ UNCHANGED <<users, referral_history, queue_state, created_at, queue>>
    ELSE IF ~add_user_ok(users, user_id, referral_link)
    THEN /\ last' = Call("join", user_id, FALSE, MsgAddFailed, referral_link, None)
         /\ UNCHANGED <<users, referral_history, queue_state, created_at, queue>>
    ELSE /\ users' = add_user(users, user_id, referral_link)
         /\ created_at' = Append(created_at, user_id)
         /\ queue' = <<user_id>> \o queue
         /\ queue_state' = save_queue_state(<<user_id>> \o queue)
         /\ last' = Call("join", user_id, TRUE, MsgAdded, referral_link, None)
         /\ UNCHANGED referral_history

\* QueueManager.add_user_to_queue(user_id, referral_link).
AddUserToQueue(user_id, referral_link) ==
    IF user_exists(users, user_id)
    THEN /\ last' = Call("join", user_id, FALSE, MsgAlready, referral_link, None)
         /\ UNCHANGED <<users, referral_history, queue_state, created_at, queue>>
    ELSE IF link_exists(users, referral_link)
    THEN /\ last' = Call("join", user_id, FALSE, MsgDupLink, referral_link, None)
         /\ UNCHANGED <<users, referral_history, queue_state, created_at, queue>>
    ELSE IF ~add_user_ok(users, user_id, referral_link)
    THEN /\ last' = Call("join", user_id, FALSE, MsgAddFailed, referral_link, None)
         /\ UNCHANGED <<users, referral_history, queue_state, created_at, queue>>
    ELSE /\ users' = add_user(users, user_id, referral_link)
         /\ created_at' = Append(created_at, user_id)
         /\ queue' = Append(queue, user_id)
         /\ queue_state' = save_queue_state(Append(queue, user_id))
         /\ last' = Call("join", user_id, TRUE, MsgAdded, referral_link, None)
         /\ UNCHANGED referral_history

\* QueueManager.assign_referral(user_id).
AssignReferral(user_id) ==
    LET r == assign_referral(queue, users, referral_history, user_id)
    IN  /\ users' = r.users
        /\ last' = Call("assign", user_id, r.ok, NoMsg, r.link, r.user)
        /\ UNCHANGED <<referral_history, queue_state, created_at, queue>>

\* Mutant of MarkReferralCompleted: the moved list is not saved.
MarkReferralCompleted_unsaved(user_id) ==
    LET user == get_user(users, user_id)
        target_id == user.assigned_to
    IN  IF ~user.exists
        THEN /\ last' = Call("complete", user_id, FALSE, MsgNotFound, NoLink, None)
             /\ UNCHANGED <<users, referral_history, queue_state, created_at, queue>>
        ELSE IF user.status # ASSIGNED
        THEN /\ last' = Call("complete", user_id, FALSE, MsgNoPending, NoLink, None)
             /\ UNCHANGED <<users, referral_history, queue_state, created_at, queue>>
        ELSE /\ user.completed_referrals < MaxCompleted
             /\ users' = update_user_status(
                             increment_completed_referrals(users, user_id),
                             user_id, WAITING, None)
             /\ referral_history' = record_history(referral_history, user_id, target_id)
             /\ queue' = move_to_back(queue, user_id)
             /\ last' = Call("complete", user_id, TRUE, MsgCompleted, NoLink, None)
             /\ UNCHANGED <<queue_state, created_at>>

\* Mutant of MarkReferralCompleted: the status after a completion is DONE.
MarkReferralCompleted_sets_done(user_id) ==
    LET user == get_user(users, user_id)
        target_id == user.assigned_to
    IN  IF ~user.exists
        THEN /\ last' = Call("complete", user_id, FALSE, MsgNotFound, NoLink, None)
             /\ UNCHANGED <<users, referral_history, queue_state, created_at, queue>>
        ELSE IF user.status # ASSIGNED
        THEN /\ last' = Call("complete", user_id, FALSE, MsgNoPending, NoLink, None)
             /\ UNCHANGED <<users, referral_history, queue_state, created_at, queue>>
        ELSE /\ user.completed_referrals < MaxCompleted
             /\ users' = update_user_status(
                             increment_completed_referrals(users, user_id),
                             user_id, DONE, None)
             /\ referral_history' = record_history(referral_history, user_id, target_id)
             /\ queue' = move_to_back(queue, user_id)
             /\ queue_state' = IF InList(queue, user_id)
                               THEN save_queue_state(move_to_back(queue, user_id))
                               ELSE queue_state
             /\ last' = Call("complete", user_id, TRUE, MsgCompleted, NoLink, None)
             /\ UNCHANGED created_at

\* QueueManager.mark_referral_completed(user_id).
MarkReferralCompleted(user_id) ==
    LET user == get_user(users, user_id)
        target_id == user.assigned_to
    IN  IF ~user.exists
        THEN /\ last' = Call("complete", user_id, FALSE, MsgNotFound, NoLink, None)
             /\ UNCHANGED <<users, referral_history, queue_state, created_at, queue>>
        ELSE IF user.status # ASSIGNED
        THEN /\ last' = Call("complete", user_id, FALSE, MsgNoPending, NoLink, None)
             /\ UNCHANGED <<users, referral_history, queue_state, created_at, queue>>
        ELSE /\ user.completed_referrals < MaxCompleted
             /\ users' = update_user_status(
                             increment_completed_referrals(users, user_id),
                             user_id, WAITING, None)
             /\ referral_history' = record_history(referral_history, user_id, target_id)
             /\ queue' = move_to_back(queue, user_id)
             /\ queue_state' = IF InList(queue, user_id)
                               THEN save_queue_state(move_to_back(queue, user_id))
                               ELSE queue_state
             /\ last' = Call("complete", user_id, TRUE, MsgCompleted, NoLink, None)
             /\ UNCHANGED created_at

\* Mutant of RemoveUserFromQueue: a participant with a pending referral is kept.
RemoveUserFromQueue_waiting_only(user_id) ==
    IF ~InList(queue, user_id) \/ users[user_id].status # WAITING
    THEN /\ last' = Call("remove", user_id, FALSE, MsgNotInQueue, NoLink, None)
         /\ UNCHANGED <<users, referral_history, queue_state, created_at, queue>>
    ELSE /\ queue' = ListRemove(queue, user_id)
         /\ users' = remove_user(users, user_id)
         /\ created_at' = SelectSeq(created_at, LAMBDA i : i # user_id)
         /\ queue_state' = save_queue_state(ListRemove(queue, user_id))
         /\ last' = Call("remove", user_id, TRUE, MsgRemoved, NoLink, None)
         /\ UNCHANGED referral_history

\* Mutant of RemoveUserFromQueue: the history rows of the user go with the row
\* (ON DELETE CASCADE on the two foreign keys).
RemoveUserFromQueue_cascade(user_id) ==
    IF ~InList(queue, user_id)
    THEN /\ last' = Call("remove", user_id, FALSE, MsgNotInQueue, NoLink, None)
         /\ UNCHANGED <<users, referral_history, queue_state, created_at, queue>>
    ELSE /\ queue' = ListRemove(queue, user_id)
         /\ users' = remove_user(users, user_id)
         /\ created_at' = SelectSeq(created_at, LAMBDA i : i # user_id)
         /\ queue_state' = save_queue_state(ListRemove(queue, user_id))
         /\ referral_history' =
                [p \in {r \in BagToSet(referral_history) :
                            r[1] # user_id /\ r[2] # user_id}
                    |-> referral_history[p]]
         /\ last' = Call("remove", user_id, TRUE, MsgRemoved, NoLink, None)

\* QueueManager.remove_user_from_queue(user_id).
RemoveUserFromQueue(user_id) ==
    IF ~InList(queue, user_id)
    THEN /\ last' = Call("remove", user_id, FALSE, MsgNotInQueue, NoLink, None)
         /\ UNCHANGED <<users, referral_history, queue_state, created_at, queue>>
    ELSE /\ queue' = ListRemove(queue, user_id)
         /\ users' = remove_user(users, user_id)
         /\ created_at' = SelectSeq(created_at, LAMBDA i : i # user_id)
         /\ queue_state' = save_queue_state(ListRemove(queue, user_id))
         /\ last' = Call("remove", user_id, TRUE, MsgRemoved, NoLink, None)
         /\ UNCHANGED referral_history

\* QueueManager.get_next_assignment().
GetNextAssignment ==
    LET next_user == get_next_user_to_assign(queue, users)
        r == assign_referral(queue, users, referral_history, next_user)
    IN  IF ~Truthy(next_user)
        THEN /\ last' = Call("next", None, FALSE, NoMsg, NoLink, None)
             /\ UNCHANGED <<users, referral_history, queue_state, created_at, queue>>
        ELSE IF r.ok
        THEN /\ users' = r.users
             /\ queue_state' = save_queue_state(queue)
             /\ last' = Call("next", None, TRUE, NoMsg, r.link, next_user)
             /\ UNCHANGED <<referral_history, created_at, queue>>
        ELSE /\ users' = r.users
             /\ last' = Call("next", None, FALSE, NoMsg, NoLink, None)
             /\ UNCHANGED <<referral_history, queue_state, created_at, queue>>

\* A process restart: a new QueueManager over the same database file.
Restart ==
    /\ queue' = load_queue_from_db(queue_state, users, created_at)
    /\ last' = Call("restart", None, TRUE, NoMsg, NoLink, None)
    /\ UNCHANGED <<users, referral_history, queue_state, created_at>>

\* One call of the API, with its arguments drawn from I and L.
NextOver(I, L) ==
    \/ \E user_id \in I, referral_link \in L :
          AddUserToQueue(user_id, referral_link) /\ UNCHANGED <<tasks, removed>>
    \/ \E user_id \in I : AssignReferral(user_id) /\ UNCHANGED <<tasks, removed>>
    \/ \E user_id \in I :
          MarkReferralCompleted(user_id) /\ UNCHANGED <<tasks, removed>>
    \/ \E user_id \in I : RemoveUserFromQueue(user_id) /\ UNCHANGED <<tasks, removed>>
    \/ GetNextAssignment /\ UNCHANGED <<tasks, removed>>
    \/ Restart /\ UNCHANGED <<tasks, removed>>

Next == NextOver(Ids, Links)

Spec == Init /\ [][Next]_vars

(* ------------------------------------------------- interrupted handlers *)
(* Every Database method opens its own connection and commits its own write; *)
(* the queue manager wraps its calls in no transaction and no try/except.    *)
(* A handler interrupted after `writes` of its commits (the process dies, or *)
(* the next database call raises) leaves those commits in the file.  When    *)
(* the process died (crashed), the next QueueManager reloads the list; when  *)
(* a call raised, the process goes on with the list as the handler left it.  *)

Interrupted(user_id) == Call("interrupted", user_id, FALSE, NoMsg, NoLink, None)

\* add_user_to_queue: db.add_user committed, save_queue_state not.
InterruptAddUserToQueue(user_id, referral_link, crashed) ==
    /\ add_user_ok(users, user_id, referral_link)
    /\ users' = add_user(users, user_id, referral_link)
    /\ created_at' = Append(created_at, user_id)
    /\ queue' = IF crashed
                THEN load_queue_from_db(queue_state, users', created_at')
                ELSE Append(queue, user_id)
    /\ last' = Interrupted(user_id)
    /\ UNCHANGED <<referral_history, queue_state>>

\* mark_referral_completed: the first `writes` of increment_completed_referrals,
\* add_referral_history, update_user_status committed, save_queue_state not.
InterruptMarkReferralCompleted(user_id, writes, crashed) ==
    LET user == get_user(users, user_id)
        u1 == increment_completed_referrals(users, user_id)
    IN  /\ user.exists
        /\ user.status = ASSIGNED
        /\ user.completed_referrals < MaxCompleted
        /\ users' = IF writes >= 3
                    THEN update_user_status(u1, user_id, WAITING, None)
                    ELSE u1
        /\ referral_history' = IF writes >= 2
                               THEN record_history(referral_history, user_id,
                                                   user.assigned_to)
                               ELSE referral_history
        /\ queue' = IF crashed
                    THEN load_queue_from_db(queue_state, users', created_at)
                    ELSE IF writes >= 3 THEN move_to_back(queue, user_id)
                    ELSE queue
        /\ last' = Interrupted(user_id)
        /\ UNCHANGED <<queue_state, created_at>>

\* remove_user_from_queue: db.remove_user committed, save_queue_state not.
InterruptRemoveUserFromQueue(user_id, crashed) ==
    /\ InList(queue, user_id)
    /\ users' = remove_user(users, user_id)
    /\ created_at' = SelectSeq(created_at, LAMBDA i : i # user_id)
    /\ queue' = IF crashed
                THEN load_queue_from_db(queue_state, users', created_at')
                ELSE ListRemove(queue, user_id)
    /\ last' = Interrupted(user_id)
    /\ UNCHANGED <<referral_history, queue_state>>

\* The calls of the interrupted runs come from two users and two links: an
\* interrupted handler needs no more, and the lists that the file and the
\* process hold may differ from then on.
CrashIds == {1, 2}
CrashLinks == {"la", "lb"}

NextCrash ==
    \/ NextOver(CrashIds, CrashLinks)
    \/ \E user_id \in CrashIds, referral_link \in CrashLinks, crashed \in BOOLEAN :
          InterruptAddUserToQueue(user_id, referral_link, crashed)
              /\ UNCHANGED <<tasks, removed>>
    \/ \E user_id \in CrashIds, writes \in 1..3, crashed \in BOOLEAN :
          InterruptMarkReferralCompleted(user_id, writes, crashed)
              /\ UNCHANGED <<tasks, removed>>
    \/ \E user_id \in CrashIds, crashed \in BOOLEAN :
          InterruptRemoveUserFromQueue(user_id, crashed)
              /\ UNCHANGED <<tasks, removed>>

SpecCrash == Init /\ [][NextCrash]_vars

(* ------------------------------------------------------- the event loop *)
(* The Flask view `webhook` hands every update to the one background event  *)
(* loop (asyncio.run_coroutine_threadsafe), so the handlers of several      *)
(* updates are in flight at once and take turns at their awaits.  The       *)
(* QueueManager and Database methods are plain `def`s without an await, and *)
(* only the loop's thread calls them: one call is one step, and the steps   *)
(* of different handlers interleave between the calls.                      *)

\* The handlers that call the queue manager: done, referral_handler (a link in
\* the text), and reset / the cancel_queue button (a removal).
Handlers == {"done", "link", "remove"}

\* The updates come from two users with two links.
LoopIds == {1, 2}
LoopLinks == {"la", "lb"}

\* The task in slot t moves on to pc (or ends, leaving the slot free).
Moved(t, pc) ==
    [tasks EXCEPT ![t] = IF pc = "idle" THEN Idle
                         ELSE Task(@.handler, @.user_id, @.link, pc)]

\* webhook: an update is scheduled on the loop.
Webhook(t, handler, user_id, link) ==
    /\ tasks[t] = Idle
    /\ tasks' = [tasks EXCEPT ![t] =
                    Task(handler, user_id,
                         IF handler = "link" THEN link ELSE NoLink, "start")]
    /\ UNCHANGED <<users, referral_history, queue_state, created_at, queue, last>>

\* Mutant of DoneComplete: mark_referral_completed gives way to the other tasks
\* after its first write.
DoneComplete_two_steps(t) ==
    LET user_id == tasks[t].user_id
        user == get_user(users, user_id)
    IN  /\ tasks[t].handler = "done"
        /\ IF tasks[t].pc = "start" /\ user.exists /\ user.status = ASSIGNED
           THEN /\ user.completed_referrals < MaxCompleted
                /\ users' = increment_completed_referrals(users, user_id)
                /\ last' = Call("yield", user_id, FALSE, NoMsg, NoLink, None)
                /\ tasks' = Moved(t, "mid")
                /\ UNCHANGED <<referral_history, queue_state, created_at, queue>>
           ELSE IF tasks[t].pc = "start"
           THEN /\ MarkReferralCompleted(user_id)
                /\ tasks' = Moved(t, "replied")
           ELSE /\ tasks[t].pc = "mid"
                /\ users' = update_user_status(users, user_id, WAITING, None)
                /\ referral_history' =
                       record_history(referral_history, user_id, user.assigned_to)
                /\ queue' = move_to_back(queue, user_id)
                /\ queue_state' = save_queue_state(move_to_back(queue, user_id))
                /\ last' = Call("complete", user_id, TRUE, MsgCompleted, NoLink, None)
                /\ tasks' = Moved(t, "replied")
                /\ UNCHANGED created_at

\* done, up to `await update.message.reply_text(message)`.
DoneComplete(t) ==
    /\ tasks[t].handler = "done" /\ tasks[t].pc = "start"
    /\ MarkReferralCompleted(tasks[t].user_id)
    /\ tasks' = Moved(t, "replied")

\* done, after the reply: get_next_assignment.
DoneNext(t) ==
    /\ tasks[t].handler = "done" /\ tasks[t].pc = "replied"
    /\ GetNextAssignment
    /\ tasks' = Moved(t, "idle")

\* referral_handler after `await check_membership` said no: the user is removed
\* when get_queue_position finds it.
LinkNotMember(t) ==
    /\ tasks[t].handler = "link" /\ tasks[t].pc = "start"
    /\ IF get_queue_position(queue, tasks[t].user_id) # None
       THEN RemoveUserFromQueue(tasks[t].user_id)
       ELSE UNCHANGED <<users, referral_history, queue_state, created_at, queue, last>>
    /\ tasks' = Moved(t, "idle")

\* referral_handler after `await check_membership` said yes: add_user_to_queue,
\* up to the reply.
LinkJoin(t) ==
    /\ tasks[t].handler = "link" /\ tasks[t].pc = "start"
    /\ AddUserToQueue(tasks[t].user_id, tasks[t].link)
    /\ tasks' = Moved(t, IF last'.ok THEN "replied" ELSE "idle")

\* referral_handler after the reply to a successful join: get_next_assignment.
LinkNext(t) ==
    /\ tasks[t].handler = "link" /\ tasks[t].pc = "replied"
    /\ GetNextAssignment
    /\ tasks' = Moved(t, "idle")

\* reset, and button_callback for cancel_queue: remove_user_from_queue.
Remove(t) ==
    /\ tasks[t].handler = "remove" /\ tasks[t].pc = "start"
    /\ RemoveUserFromQueue(tasks[t].user_id)
    /\ tasks' = Moved(t, "idle")

NextLoop ==
    \/ \E t \in Slots, handler \in Handlers, user_id \in LoopIds, link \in LoopLinks :
          Webhook(t, handler, user_id, link) /\ UNCHANGED removed
    \/ \E t \in Slots : DoneComplete(t) /\ UNCHANGED removed
    \/ \E t \in Slots : DoneNext(t) /\ UNCHANGED removed
    \/ \E t \in Slots : LinkNotMember(t) /\ UNCHANGED removed
    \/ \E t \in Slots : LinkJoin(t) /\ UNCHANGED removed
    \/ \E t \in Slots : LinkNext(t) /\ UNCHANGED removed
    \/ \E t \in Slots : Remove(t) /\ UNCHANGED removed

SpecLoop == Init /\ [][NextLoop]_vars

(* ------------------------------------------------------------- fairness *)

\* The calls of Spec, with get_next_assignment called again and again: a call
\* of it that would change something is not put off forever.
SpecFair ==
    /\ Init /\ [][Next]_vars
    /\ WF_vars(GetNextAssignment /\ UNCHANGED <<tasks, removed>>)

(* ----------------------------------------------------------- statistics *)

\* Database.get_stats()["completed_referrals"]: SELECT COUNT(*) FROM
\* referral_history.
get_stats_completed_referrals(h) == BagCardinality(h)

\* In these runs every user sends a link of its own, the same one each time.
StatsLink(user_id) ==
    IF user_id = 0 THEN "la" ELSE IF user_id = 1 THEN "lb" ELSE "lc"

\* The calls of the queue manager, with the ids that have been removed written
\* down.
NextStats ==
    \/ \E user_id \in Ids :
          AddUserToQueue(user_id, StatsLink(user_id)) /\ UNCHANGED <<tasks, removed>>
    \/ \E user_id \in Ids : AssignReferral(user_id) /\ UNCHANGED <<tasks, removed>>
    \/ \E user_id \in Ids :
          /\ MarkReferralCompleted(user_id)
          /\ UNCHANGED <<tasks, removed>>
    \/ \E user_id \in Ids :
          /\ RemoveUserFromQueue(user_id)
          /\ removed' = IF InList(queue, user_id) THEN removed \cup {user_id}
                        ELSE removed
          /\ UNCHANGED tasks
    \/ GetNextAssignment /\ UNCHANGED <<tasks, removed>>
    \/ Restart /\ UNCHANGED <<tasks, removed>>

SpecStats == Init /\ [][NextStats]_vars

(* ---------------------------------------------------------------- claims *)

\* The ledger holds a record (a, b): a completed the referral of b.
HasRecord(h, a, b) == CopiesIn(<<a, b>>, h) > 0

\* The step is a call of op (last' names the call that made the step).
Called(op) == last'.op = op

\* The list q without x, the order of the rest kept.
Without(q, x) == SelectSeq(q, LAMBDA y : y # x)

\* The database tables and the list are as they were.
SameState ==
    /\ users' = users
    /\ referral_history' = referral_history
    /\ queue_state' = queue_state
    /\ created_at' = created_at
    /\ queue' = queue

\* C1: no participant is ASSIGNED to a target for which the ledger already holds
\* a record (participant, target), and no pair is recorded twice in the ledger.
C1_NoRepeatPairing ==
    /\ \A p \in Ids :
          (users[p].exists /\ users[p].status = ASSIGNED)
              => ~HasRecord(referral_history, p, users[p].assigned_to)
    /\ \A a \in Ids, b \in Ids : CopiesIn(<<a, b>>, referral_history) <= 1

\* C1 witness: a participant that completed a referral of c, was removed and joined
\* again (its counter is 0 again), has just been assigned and c was skipped.
C1_Witness ==
    /\ last.op = "assign" /\ last.ok
    /\ users[last.arg].completed_referrals = 0
    /\ \E c \in Ids :
          /\ HasRecord(referral_history, last.arg, c)
          /\ Index(queue, last.arg) < Index(queue, c)
          /\ Index(queue, c) < Index(queue, last.user)

\* C2: a successful assign_referral(p) of a WAITING p at position k selects the
\* first participant c after position k with no record (p, c), sets p ASSIGNED
\* with assigned_to = c and returns c's referral link.
C2_FirstEligibleTarget ==
    [][(Called("assign") /\ last'.ok) =>
          LET p == last'.arg
              c == last'.user
              k == Index(queue, p)
              j == Index(queue, c)
          IN  /\ users[p].exists /\ users[p].status = WAITING
              /\ k > 0 /\ j > k
              /\ ~HasRecord(referral_history, p, c)
              /\ \A i \in (k + 1)..(j - 1) : HasRecord(referral_history, p, queue[i])
              /\ users'[p].status = ASSIGNED
              /\ users'[p].assigned_to = c
              /\ last'.link = users[c].referral_link]_vars

\* C2 witness: queue [A, B, C] with a record (A, B): assign_referral(A) returned C.
C2_Witness ==
    /\ last.op = "assign" /\ last.ok
    /\ Len(queue) = 3
    /\ last.arg = queue[1]
    /\ last.user = queue[3]
    /\ HasRecord(referral_history, queue[1], queue[2])
    /\ users[queue[1]].assigned_to = queue[3]

\* C3 (as claimed): a successful mark_referral_completed(A) with target T moves A
\* to the last position keeping the order of the others, adds exactly 1 to A's
\* counter, leaves a record (A, T) in the ledger and A WAITING with no target.
C3_CompleteRequeues ==
    [][(Called("complete") /\ last'.ok) =>
          LET A == last'.arg
              T == users[A].assigned_to
          IN  /\ users[A].status = ASSIGNED
              /\ queue' = Append(Without(queue, A), A)
              /\ users'[A].completed_referrals = users[A].completed_referrals + 1
              /\ HasRecord(referral_history', A, T)
              /\ users'[A].status = WAITING
              /\ users'[A].assigned_to = None]_vars

\* Every participant after p in the queue has a record (p, c), or p is last.
Exhausted(p) ==
    /\ users[p].exists /\ users[p].status = WAITING
    /\ InList(queue, p)
    /\ \A i \in (Index(queue, p) + 1)..Len(queue) :
          HasRecord(referral_history, p, queue[i])

\* C4: assign_referral(p) of a WAITING p with no unpaired participant after it
\* fails and leaves p WAITING with no target and everything else as it was.
C4_ExhaustionFails ==
    [][(Called("assign") /\ Exhausted(last'.arg)) =>
          /\ ~last'.ok /\ last'.link = NoLink /\ last'.user = None
          /\ users'[last'.arg].status = WAITING
          /\ users'[last'.arg].assigned_to = None
          /\ SameState]_vars

\* C4 witness: a failed assign_referral(p) with participants after p, all paired.
C4_Witness ==
    /\ last.op = "assign" /\ ~last.ok
    /\ Exhausted(last.arg)
    /\ Index(queue, last.arg) < Len(queue)

\* C5: add_user_to_queue(id, link) fails with "already in the queue" when id has a
\* row, whatever the link, and with "already registered" when id has no row and
\* the link is another participant's; both leave the state as it was.
C5_JoinRejections ==
    [][Called("join") =>
          LET id == last'.arg
              link == last'.link
          IN  /\ users[id].exists =>
                    (~last'.ok /\ last'.msg = MsgAlready /\ SameState)
              /\ (/\ ~users[id].exists
                  /\ \E o \in Ids \ {id} :
                        users[o].exists /\ users[o].referral_link = link) =>
                    (~last'.ok /\ last'.msg = MsgDupLink /\ SameState)]_vars

\* C5 witness: a join of an existing id with a link registered to another
\* participant was rejected as "already in the queue".
C5_Witness ==
    /\ last.op = "join" /\ ~last.ok /\ last.msg = MsgAlready
    /\ \E o \in Ids \ {last.arg} :
          users[o].exists /\ users[o].referral_link = last.link

\* C6: remove_user_from_queue(id) of an existing participant, WAITING or ASSIGNED,
\* deletes its row and its queue entry, keeps the order of the others, and
\* get_user_info(id) finds nothing until a successful join of id.
C6_RemovalDeletes ==
    [][/\ (Called("remove") /\ users[last'.arg].exists) =>
             /\ last'.ok
             /\ ~users'[last'.arg].exists
             /\ ~InList(queue', last'.arg)
             /\ queue' = Without(queue, last'.arg)
             /\ get_queue_state(queue_state') = queue'
             /\ ~get_user_info(users', queue', last'.arg).found
       /\ \A id \in Ids :
             (/\ ~get_user_info(users, queue, id).found
              /\ get_user_info(users', queue', id).found) =>
                 (Called("join") /\ last'.arg = id /\ last'.ok)]_vars

\* C6 witness: a participant has just been removed; two others stay in the queue,
\* one of them ASSIGNED.
C6_Witness ==
    /\ last.op = "remove" /\ last.ok
    /\ ~get_user_info(users, queue, last.arg).found
    /\ Len(queue) >= 2
    /\ \E p \in Ids : users[p].status = ASSIGNED

\* A row of the users table of a participant that exists.
Row(link, status, assigned_to, n) ==
    [exists |-> TRUE, referral_link |-> link, status |-> status,
     assigned_to |-> assigned_to, completed_referrals |-> n]

\* The users table with rows ra, rb, rc for A, B, C and no other row.
Table(A, B, C, ra, rb, rc) ==
    [i \in Ids |-> IF i = A THEN ra ELSE IF i = B THEN rb
                   ELSE IF i = C THEN rc ELSE NoUser]

\* The state after the first k calls of the end-to-end scenario of A, B, C.
Stage(k, A, B, C) ==
    LET a0 == Row("la", WAITING, None, 0)
        b0 == Row("lb", WAITING, None, 0)
        c0 == Row("lc", WAITING, None, 0)
        a1 == Row("la", WAITING, None, 1)
        b1 == Row("lb", WAITING, None, 1)
        hA == SetToBag({<<A, B>>})
        hB == SetToBag({<<A, B>>, <<B, C>>})
        Is(u, q, h) == users = u /\ queue = q /\ referral_history = h
    IN  CASE k = 0 -> Is(Table(A, B, C, NoUser, NoUser, NoUser), <<>>, EmptyBag)
          [] k = 1 -> Is(Table(A, B, C, a0, NoUser, NoUser), <<A>>, EmptyBag)
          [] k = 2 -> Is(Table(A, B, C, a0, b0, NoUser), <<A, B>>, EmptyBag)
          [] k = 3 -> Is(Table(A, B, C, a0, b0, c0), <<A, B, C>>, EmptyBag)
          [] k = 4 -> Is(Table(A, B, C, Row("la", ASSIGNED, B, 0), b0, c0),
                         <<A, B, C>>, EmptyBag)
          [] k = 5 -> Is(Table(A, B, C, a1, b0, c0), <<B, C, A>>, hA)
          [] k = 6 -> Is(Table(A, B, C, a1, Row("lb", ASSIGNED, C, 0), c0),
                         <<B, C, A>>, hA)
          [] k = 7 -> Is(Table(A, B, C, a1, b1, c0), <<C, A, B>>, hB)
          [] k = 8 -> Is(Table(A, B, C, a1, b1, Row("lc", ASSIGNED, A, 0)),
                         <<C, A, B>>, hB)

\* The k-th call of the scenario, and what it returns.
StageCall(k, A, B, C) ==
    CASE k = 1 -> last.op = "join" /\ last.arg = A /\ last.link = "la"
      [] k = 2 -> last.op = "join" /\ last.arg = B /\ last.link = "lb"
      [] k = 3 -> last.op = "join" /\ last.arg = C /\ last.link = "lc"
      [] k = 4 -> last.op = "assign" /\ last.arg = A
      [] k = 5 -> last.op = "complete" /\ last.arg = A
      [] k = 6 -> last.op = "assign" /\ last.arg = B
      [] k = 7 -> last.op = "complete" /\ last.arg = B
      [] k = 8 -> last.op = "assign" /\ last.arg = C

StageReturn(k, A, B, C) ==
    CASE k = 4 -> last.ok /\ last.user = B /\ last.link = "lb"
      [] k = 6 -> last.ok /\ last.user = C /\ last.link = "lc"
      [] k = 8 -> last.ok /\ last.user = A /\ last.link = "la"
      [] OTHER -> last.ok

\* C7 (as claimed): from the empty system, Join A, Join B, Join C, assign(A),
\* complete(A), assign(B), complete(B), assign(C) give in order queue [A,B,C], A
\* assigned to B, ledger (A,B) and queue [B,C,A], B assigned to C, queue [C,A,B],
\* C assigned to A: each call of the scenario leads from its stage to the next.
C7_EndToEndScenario ==
    [][\A A \in Ids, B \in Ids, C \in Ids :
          (A # B /\ A # C /\ B # C) =>
             \A k \in 1..8 :
                (Stage(k - 1, A, B, C) /\ StageCall(k, A, B, C)') =>
                    (Stage(k, A, B, C)' /\ StageReturn(k, A, B, C)')]_vars

\* The first participant of the queue, head to tail, that is WAITING, or None.
FirstWaiting ==
    LET W == {i \in 1..Len(queue) :
                 users[queue[i]].exists /\ users[queue[i]].status = WAITING}
    IN  IF W = {} THEN None
        ELSE queue[CHOOSE i \in W : \A j \in W : i <= j]

\* C8 (as claimed): get_next_assignment tries the first WAITING participant only;
\* when assign_referral fails for it, it returns (None, None) and changes
\* nothing; when it succeeds, it returns that participant and the target's link.
C8_NextAssignmentFirstWaitingOnly ==
    [][Called("next") =>
          LET f == FirstWaiting
              r == assign_referral(queue, users, referral_history, f)
          IN  IF f = None
              THEN ~last'.ok /\ last'.user = None /\ last'.link = NoLink /\ SameState
              ELSE IF ~r.ok
              THEN ~last'.ok /\ last'.user = None /\ last'.link = NoLink /\ SameState
              ELSE /\ last'.ok /\ last'.user = f /\ last'.link = r.link
                   /\ users' = r.users
                   /\ queue' = queue
                   /\ referral_history' = referral_history]_vars

\* C9: a successful assignment of p (by assign_referral, or by assign_referral
\* within get_next_assignment) changes p's status and assigned_to and nothing
\* else: not the queue, the ledger, the saved queue, the target's row or any
\* other row.
C9_AssignFrame ==
    [][((Called("assign") \/ Called("next")) /\ last'.ok) =>
          LET p == IF last'.op = "assign" THEN last'.arg ELSE last'.user
          IN  /\ queue' = queue
              /\ referral_history' = referral_history
              /\ queue_state' = queue_state
              /\ created_at' = created_at
              /\ \A i \in Ids \ {p} : users'[i] = users[i]
              /\ users'[p] = [users[p] EXCEPT !.status = ASSIGNED,
                                              !.assigned_to = users'[p].assigned_to]
              /\ users[p].status = WAITING
              /\ users'[p].assigned_to \in Ids \ {p}
              /\ Called("assign") => users'[p].assigned_to = last'.user]_vars

\* C9 witness: after a successful assign_referral, two ASSIGNED participants have
\* the same target.
C9_Witness ==
    /\ last.op = "assign" /\ last.ok
    /\ \E a \in Ids, b \in Ids :
          /\ a # b
          /\ users[a].status = ASSIGNED /\ users[b].status = ASSIGNED
          /\ users[a].assigned_to = users[b].assigned_to
          /\ users[a].assigned_to = last.user

\* C10 (as claimed): a handler interrupted between two of its writes leaves the
\* persisted users, ledger and saved queue order as they were before it began.
C10_NoPartialWrites ==
    [][Called("interrupted") =>
          /\ users' = users
          /\ referral_history' = referral_history
          /\ queue_state' = queue_state]_vars

\* One whole call of the queue manager by a handler of the event loop.
SerialCall ==
    \/ \E user_id \in LoopIds, referral_link \in LoopLinks :
          AddUserToQueue(user_id, referral_link)
    \/ \E user_id \in LoopIds : MarkReferralCompleted(user_id)
    \/ \E user_id \in LoopIds : RemoveUserFromQueue(user_id)
    \/ GetNextAssignment

C12_RestartKeepsOrder ==
    [][Called("restart") => queue' = queue]_vars

\* C12 witness: a restart came back with a list that holds an ASSIGNED
\* participant before a WAITING one and is not the list of the WAITING users.
C12_Witness ==
    /\ last.op = "restart"
    /\ Len(queue) = 3
    /\ users[queue[1]].status = ASSIGNED
    /\ users[queue[2]].status = WAITING
    /\ queue # get_users_by_status(users, created_at, WAITING)

\* C13: after every call (and after construction) the in-memory list equals the
\* saved queue order.
C13_ListEqualsSaved ==
    queue = get_queue_state(queue_state)

\* C13 witness: a completion has moved its caller from the head to the back of a
\* list of three, and the saved order is that list.
C13_Witness ==
    /\ last.op = "complete" /\ last.ok
    /\ Len(queue) = 3
    /\ queue[3] = last.arg
    /\ created_at[1] = last.arg
    /\ get_queue_state(queue_state) = queue

\* C14: a participant has an assigned_to exactly when its status is ASSIGNED.
C14_AssignedToIffAssigned ==
    \A i \in Ids :
        users[i].exists =>
            (users[i].assigned_to # None <=> users[i].status = ASSIGNED)

\* C14 witness: a completion has cleared its caller's assigned_to while another
\* participant is still ASSIGNED with a target.
C14_Witness ==
    /\ last.op = "complete" /\ last.ok
    /\ users[last.arg].status = WAITING
    /\ users[last.arg].assigned_to = None
    /\ users[last.arg].completed_referrals > 0
    /\ \E i \in Ids : users[i].status = ASSIGNED /\ users[i].assigned_to # None

\* C15: the ledger is append-only.  No step lowers the number of records of any
\* pair, only a successful completion adds a record (one), a removal or a join
\* leaves the ledger as it is, and every pair that has_interacted_before finds
\* is found after the step too, whoever has been removed or has joined again.
C15_LedgerAppendOnly ==
    [][/\ \A a \in Ids, b \in Ids :
             /\ CopiesIn(<<a, b>>, referral_history')
                    >= CopiesIn(<<a, b>>, referral_history)
             /\ has_interacted_before(referral_history, a, b)
                    => has_interacted_before(referral_history', a, b)
       /\ referral_history' # referral_history =>
             /\ Called("complete") /\ last'.ok
             /\ BagCardinality(referral_history')
                    = BagCardinality(referral_history) + 1
       /\ (Called("remove") \/ Called("join")) =>
             referral_history' = referral_history]_vars

\* C15 witness: a participant that completed a referral was removed and joined
\* again (its counter is 0, its record is in the ledger), and its assignment
\* passed over the earlier referee, which stands right behind it.
C15_Witness ==
    /\ last.op = "assign" /\ last.ok
    /\ users[last.arg].completed_referrals = 0
    /\ Len(queue) = 3
    /\ queue[1] = last.arg
    /\ HasRecord(referral_history, last.arg, queue[2])
    /\ last.user = queue[3]

\* C16: each participant id stands at most once in the list.
C16_NoDuplicateInQueue ==
    \A j \in 1..Len(queue), k \in 1..Len(queue) : queue[j] = queue[k] => j = k

\* C16 witness: three different ids are in the list, and the last call moved a
\* participant that had completed before to the back once more.
C16_Witness ==
    /\ last.op = "complete" /\ last.ok
    /\ users[last.arg].completed_referrals = 2
    /\ Len(queue) = 3
    /\ Cardinality({queue[k] : k \in 1..3}) = 3

\* C17: no two existing participants have the same referral_link.
C17_LinksUnique ==
    \A i \in Ids, j \in Ids :
        (i # j /\ users[i].exists /\ users[j].exists)
            => users[i].referral_link # users[j].referral_link

\* C17 witness: two participants exist, and a third id has just been refused
\* the link of one of them.
C17_Witness ==
    /\ last.op = "join" /\ ~last.ok /\ last.msg = MsgDupLink
    /\ ~users[last.arg].exists
    /\ Cardinality({i \in Ids : users[i].exists}) = 2
    /\ \E i \in Ids : users[i].exists /\ users[i].referral_link = last.link

\* C18: a successful join of id with link creates the row (link, WAITING, no
\* assigned_to, counter 0), appends id to the list, and leaves every other row
\* and the ledger as they were.
C18_JoinFrame ==
    [][(Called("join") /\ last'.ok) =>
          /\ ~users[last'.arg].exists
          /\ users'[last'.arg] =
                [exists |-> TRUE, referral_link |-> last'.link, status |-> WAITING,
                 assigned_to |-> None, completed_referrals |-> 0]
          /\ \A j \in Ids \ {last'.arg} : users'[j] = users[j]
          /\ ~InList(queue, last'.arg)
          /\ queue' = Append(queue, last'.arg)
          /\ referral_history' = referral_history]_vars

\* C18 witness: a join succeeded behind two participants, one of them ASSIGNED,
\* with a record in the ledger.
C18_Witness ==
    /\ last.op = "join" /\ last.ok
    /\ Len(queue) = 3
    /\ queue[3] = last.arg
    /\ users[queue[1]].status = ASSIGNED
    /\ referral_history # EmptyBag

\* C19 (as claimed): with a record (A, B) and no record (B, A) in the ledger,
\* assign_referral(B) of a WAITING B that has A right behind it in the list
\* succeeds and assigns B to A.
C19_OneDirectionalFilter ==
    [][\A A \in Ids, B \in Ids :
          (/\ Called("assign") /\ last'.arg = B
           /\ users[B].exists /\ users[B].status = WAITING
           /\ users[A].exists
           /\ HasRecord(referral_history, A, B)
           /\ ~HasRecord(referral_history, B, A)
           /\ InList(queue, B)
           /\ Index(queue, A) = Index(queue, B) + 1)
          => /\ last'.ok
             /\ last'.user = A
             /\ users'[B].status = ASSIGNED
             /\ users'[B].assigned_to = A]_vars

\* C20: assign_referral fails for an absent id and for an ASSIGNED one,
\* mark_referral_completed fails with "User not found." for an absent id and
\* with "You don't have a pending referral to complete." for a WAITING one, and
\* each of these failures leaves the tables and the list as they were.
C20_FailuresLeaveState ==
    [][/\ (/\ Called("assign")
           /\ \/ ~users[last'.arg].exists
              \/ users[last'.arg].status = ASSIGNED)
          => /\ ~last'.ok /\ last'.link = NoLink /\ last'.user = None
             /\ SameState
       /\ (Called("complete") /\ ~users[last'.arg].exists)
          => /\ ~last'.ok /\ last'.msg = MsgNotFound
             /\ SameState
       /\ (/\ Called("complete")
           /\ users[last'.arg].exists
           /\ users[last'.arg].status = WAITING)
          => /\ ~last'.ok /\ last'.msg = MsgNoPending
             /\ SameState]_vars

\* C20 witness: assign_referral has failed for an ASSIGNED participant that has
\* a candidate it never completed right behind it.
C20_Witness ==
    /\ last.op = "assign" /\ ~last.ok
    /\ users[last.arg].status = ASSIGNED
    /\ Len(queue) = 3
    /\ queue[1] = last.arg
    /\ users[last.arg].assigned_to = queue[3]
    /\ Truthy(queue[2])
    /\ ~HasRecord(referral_history, last.arg, queue[2])

\* C21 (as claimed): every successful join, completion or removal made by a
\* handler leaves that handler standing before a call of get_next_assignment.
C21_MutationFollowedByNext ==
    [][(last'.ok /\ (Called("join") \/ Called("complete") \/ Called("remove")))
          => \E t \in Slots : tasks'[t] # tasks[t] /\ tasks'[t].pc = "replied"]_vars

\* p is WAITING in the list with a participant behind it that it has not
\* referred before.
Assignable(p) ==
    /\ users[p].exists /\ users[p].status = WAITING
    /\ InList(queue, p)
    /\ \E k \in (Index(queue, p) + 1)..Len(queue) :
          ~has_interacted_before(referral_history, p, queue[k])

\* C22 (as claimed): with get_next_assignment called again and again, a WAITING
\* participant with an unpaired participant behind it is eventually assigned
\* (or stops being such a participant: it is removed or its candidates go).
C22_WaitingEventuallyAssigned ==
    \A p \in Ids :
        Assignable(p) ~> (users[p].status = ASSIGNED \/ ~Assignable(p))

C24_CounterMonotonic ==
    [][\A i \in Ids :
          (users[i].exists /\ users'[i].exists)
          => /\ users'[i].completed_referrals >= users[i].completed_referrals
             /\ users'[i].completed_referrals # users[i].completed_referrals
                => /\ Called("complete") /\ last'.ok /\ last'.arg = i
                   /\ users'[i].completed_referrals
                          = users[i].completed_referrals + 1]_vars

\* C24 witness: a participant has completed its second referral while another
\* participant has one completion and a third none.
C24_Witness ==
    /\ last.op = "complete" /\ last.ok
    /\ users[last.arg].completed_referrals = 2
    /\ \E i \in Ids, j \in Ids :
          /\ users[i].exists /\ users[i].completed_referrals = 1
          /\ users[j].exists /\ users[j].completed_referrals = 0

\* C25 (as claimed): assign_referral(p) of an existing WAITING p in the list
\* succeeds whenever some participant behind p has not been referred by p
\* before, whatever the ids (0 included) and wherever the candidate stands.
C25_AssignSucceedsWhenEligible ==
    [][\A p \in Ids :
          (/\ Called("assign") /\ last'.arg = p
           /\ Assignable(p)
           /\ \A k \in 1..Len(queue) : users[queue[k]].exists)
          => /\ last'.ok
             /\ users'[p].status = ASSIGNED]_vars

\* C26: a participant that has just completed is not chosen again at once.  A
\* successful completion leaves its caller WAITING at the end of the list; a
\* call that is no successful join, completion or removal leaves the list as
\* it is; and neither assign_referral nor get_next_assignment assigns the
\* WAITING participant at the end of the list.
C26_NoImmediateReselection ==
    [][/\ (Called("complete") /\ last'.ok)
          => /\ Len(queue') > 0
             /\ queue'[Len(queue')] = last'.arg
             /\ users'[last'.arg].status = WAITING
       /\ ~(last'.ok /\ (Called("join") \/ Called("complete") \/ Called("remove")))
          => queue' = queue
       /\ \A A \in Ids :
             (/\ Len(queue) > 0 /\ queue[Len(queue)] = A
              /\ users[A].exists /\ users[A].status = WAITING
              /\ (Called("assign") \/ Called("next")))
             => /\ users'[A].status = WAITING
                /\ ~(last'.ok /\ Called("assign") /\ last'.arg = A)
                /\ ~(last'.ok /\ Called("next") /\ last'.user = A)]_vars

\* C26 witness: assign_referral has refused the WAITING participant at the end
\* of the list, which has a completion and has not referred a participant that
\* stands before it.
C26_Witness ==
    /\ last.op = "assign" /\ ~last.ok
    /\ Len(queue) = 3
    /\ last.arg = queue[3]
    /\ users[last.arg].status = WAITING
    /\ users[last.arg].completed_referrals > 0
    /\ Truthy(queue[1])
    /\ ~HasRecord(referral_history, last.arg, queue[1])

\* C27: the ids in the list are the ids that have a users row.
C27_QueueIdsAreStoreIds ==
    {queue[k] : k \in 1..Len(queue)} = {i \in Ids : users[i].exists}

\* C27 witness: a restart has loaded a list of two while the ledger names a
\* participant that was removed.
C27_Witness ==
    /\ last.op = "restart"
    /\ Len(queue) = 2
    /\ \E a \in Ids, b \in Ids :
          HasRecord(referral_history, a, b) /\ ~users[b].exists

\* C28 (as claimed): the assigned_to of an ASSIGNED participant is the id of a
\* participant that has a users row.
C28_TargetExists ==
    \A i \in Ids :
        (users[i].exists /\ users[i].status = ASSIGNED)
            => /\ users[i].assigned_to \in Ids
               /\ users[users[i].assigned_to].exists

\* C29: the target of an ASSIGNED participant, when it is in the list, stands
\* behind the participant.
C29_TargetBehind ==
    \A p \in Ids :
        (/\ users[p].exists /\ users[p].status = ASSIGNED
         /\ InList(queue, p) /\ InList(queue, users[p].assigned_to))
            => Index(queue, p) < Index(queue, users[p].assigned_to)

\* C29 witness: the head of a list of three is ASSIGNED to the participant at
\* the end, which has just been moved there by its own completion.
C29_Witness ==
    /\ last.op = "complete" /\ last.ok
    /\ Len(queue) = 3
    /\ last.arg = queue[3]
    /\ users[queue[1]].status = ASSIGNED
    /\ users[queue[1]].assigned_to = queue[3]

\* C30: no participant is assigned to itself, and no record of the ledger has
\* the same id as referrer and referee.
C30_NoSelfAssignment ==
    /\ \A i \in Ids : users[i].exists => users[i].assigned_to # i
    /\ \A a \in Ids : ~HasRecord(referral_history, a, a)

\* C30 witness: an assignment has succeeded for a participant that has referred
\* every other participant of the list but one.
C30_Witness ==
    /\ last.op = "assign" /\ last.ok
    /\ Len(queue) = 3
    /\ last.arg = queue[1]
    /\ users[last.arg].assigned_to = queue[3]
    /\ HasRecord(referral_history, last.arg, queue[2])
    /\ BagCardinality(referral_history) >= 2

\* The number of records of the ledger whose referrer is i.
RecordsOf(h, i) ==
    BagCardinality([p \in {r \in BagToSet(h) : r[1] = i} |-> h[p]])

\* i has a users row and has never been removed.
NeverRemoved(i) == users[i].exists /\ i \notin removed

\* The sum of f[i] over the ids of S.
RECURSIVE SumOver(_, _)
SumOver(S, f) ==
    IF S = {} THEN 0
    ELSE LET i == CHOOSE x \in S : TRUE
         IN  f[i] + SumOver(S \ {i}, f)

\* The sum of completed_referrals over the participants never removed.
SumCompletedNeverRemoved ==
    SumOver({i \in Ids : NeverRemoved(i)},
            [i \in Ids |-> users[i].completed_referrals])

\* C31: the counter of a participant that has never been removed is
\* the number of records it is the referrer of, and the total that get_stats
\* reports is the sum of the counters of those participants.
C31_CountEqualsLedger ==
    /\ \A i \in Ids :
          NeverRemoved(i) =>
              users[i].completed_referrals = RecordsOf(referral_history, i)
    /\ get_stats_completed_referrals(referral_history) = SumCompletedNeverRemoved

====
